---- MODULE Spec2Model ----
(***************************************************************************)
(* Tic-Tac-Toe against a Dobot arm: the two move-selection engines         *)
(* (src/src/mini_max_algo.py, src/src/mini_max_algo_v2.py), the turn       *)
(* validation helpers and the game loop of run_simulation.py.              *)
(*                                                                         *)
(* A grid is a function [0..2 -> [0..2 -> STRING]], indexed grid[i][j] as  *)
(* the Python list of lists is.  The empty cell is the empty string.       *)
(***************************************************************************)
EXTENDS Integers, Sequences, FiniteSets, TLC

VARIABLES
    board,              \* engine games: the board the two players fill
    turn,               \* engine games: "ai" or "human", the side to move
    pc,                 \* run_simulation_dobot: "start", "head", "turn", "done"
    outcome,            \* how run_simulation_dobot ended; "none" while it runs
    human_symbol,
    robot_symbol,
    starting_player,
    player,             \* "1" the robot, "2" the human
    simulation_count,
    grid_sim,           \* the accepted board, or None
    cache,              \* the module-level dict of find_rect
    human_win,
    robot_win,
    grid_run,           \* the board the last capture returned, or None
    rect,               \* rect (human turn) or rectangle (robot turn)
    verdict,            \* the branch that ended the last turn
    grid_prev,          \* grid_sim when the last turn began
    turn_player,        \* player when the last turn began
    noise,              \* captures so far that were no clean single move
    draw_log,           \* the calls of dm.draw in the last turn, with their results
    captured,           \* whether the last turn asked the camera for a capture
    cw_grid,            \* check_win_or_not alone: its argument
    cw_result,          \* check_win_or_not alone: its result, None before
    fr_ret,             \* find_rect alone: the value of the last call
    fr_calls,           \* find_rect alone: calls made
    ca_engine,          \* engine calls: "search" or "heuristic"
    ca_board,           \* engine calls: the board object passed to the calls
    ca_rets,            \* engine calls: what the calls so far returned or raised
    dr_pc,              \* draw and capture: "robot_turn", "drawn", "failed", "raised"
    dr_dobot,           \* DrawModule.dobot: None, or <<n>> for the n-th connection
    dr_conns,           \* the connections opened on the port so far
    dr_calls,           \* the calls of DrawModule.draw so far, with their results
    dr_capture_early    \* a capture began before close() on a connection of draw

gamevars == <<board, turn>>

simvars == <<pc, outcome, human_symbol, robot_symbol, starting_player, player,
             simulation_count, grid_sim, human_win, robot_win, grid_run, rect,
             verdict, grid_prev, turn_player, noise, draw_log, captured>>

winvars == <<cw_grid, cw_result>>

ledgervars == <<fr_ret, fr_calls>>

callvars == <<ca_engine, ca_board, ca_rets>>

drawvars == <<dr_pc, dr_dobot, dr_conns, dr_calls, dr_capture_early>>

vars == <<gamevars, simvars, cache, winvars, ledgervars, callvars, drawvars>>

----------------------------------------------------------------------------
(* Grids                                                                   *)

Idx == 0..2

\* range(3) x range(3) in the order of the nested for loops (row-major).
CellOrder ==
    << <<0,0>>, <<0,1>>, <<0,2>>,
       <<1,0>>, <<1,1>>, <<1,2>>,
       <<2,0>>, <<2,1>>, <<2,2>> >>

EmptyGrid == [i \in Idx |-> [j \in Idx |-> ""]]

\* board[i][j] = v
Place(b, i, j, v) == [b EXCEPT ![i][j] = v]

\* The table with the entries of (0, 1) and (0, 2) exchanged.
rectangle_mapping_exchanged ==
    (<<0,0>> :> 1) @@ (<<0,1>> :> 3) @@ (<<0,2>> :> 2) @@
    (<<1,0>> :> 4) @@ (<<1,1>> :> 5) @@ (<<1,2>> :> 6) @@
    (<<2,0>> :> 7) @@ (<<2,1>> :> 8) @@ (<<2,2>> :> 9)

\* rectangle_mapping: the dict (row, col) -> 1..9, entry by entry.
rectangle_mapping ==
    (<<0,0>> :> 1) @@ (<<0,1>> :> 2) @@ (<<0,2>> :> 3) @@
    (<<1,0>> :> 4) @@ (<<1,1>> :> 5) @@ (<<1,2>> :> 6) @@
    (<<2,0>> :> 7) @@ (<<2,1>> :> 8) @@ (<<2,2>> :> 9)

----------------------------------------------------------------------------
(* src/src/mini_max_algo.py: the exhaustive minimax engine                 *)

NegInf == -1000
PosInf == 1000

\* The Python value None, where a move or a symbol is expected.
None == "None"

\* TicTacToeAI.__init__ defaults, the ones run_algorithm constructs.
AI_SYMBOL == "O"
HUMAN_SYMBOL == "X"

check_winner(b) ==
    LET RowCol(i) ==
            IF b[i][0] = b[i][1] /\ b[i][1] = b[i][2] /\ b[i][2] # ""
            THEN b[i][0]
            ELSE IF b[0][i] = b[1][i] /\ b[1][i] = b[2][i] /\ b[2][i] # ""
            THEN b[0][i]
            ELSE None
    IN  IF RowCol(0) # None THEN RowCol(0)
        ELSE IF RowCol(1) # None THEN RowCol(1)
        ELSE IF RowCol(2) # None THEN RowCol(2)
        ELSE IF b[0][0] = b[1][1] /\ b[1][1] = b[2][2] /\ b[2][2] # ""
        THEN b[0][0]
        ELSE IF b[0][2] = b[1][1] /\ b[1][1] = b[2][0] /\ b[2][0] # ""
        THEN b[0][2]
        ELSE None

is_full(b) == \A i \in Idx : \A j \in Idx : b[i][j] # ""

\* max / min of the scores of the trial moves of one minimax level.
SetMax(S) == CHOOSE x \in S : \A y \in S : y <= x
SetMin(S) == CHOOSE x \in S : \A y \in S : y >= x

\* The cells the nested for loops find empty.
EmptyCells(b) == {c \in Idx \X Idx : b[c[1]][c[2]] = ""}

\* First cell of CellOrder (the loops' order) in the set S; None if S is empty.
FirstCell(S) ==
    IF S = {} THEN None
    ELSE CellOrder[CHOOSE k \in 1..9 :
                       /\ CellOrder[k] \in S
                       /\ \A m \in 1..(k - 1) : CellOrder[m] \notin S]

\* A win scored higher the later it comes.
WinScoreLaterIsBetter(depth) == 10 + depth

\* Terminal scores at the given depth.
WinScore(depth) == 10 - depth

\* A sign slip: a human win scored as an AI win.
LossScoreSignSlip(depth) == 10 - depth

LossScore(depth) == depth - 10

RECURSIVE minimax(_, _, _, _, _)

\* best_score starts at -inf (+inf) and takes max (min) with the score of
\* every empty cell's trial move; the board is not full here, so the result
\* is the max (min) of the scores.
minimax(b, depth, is_maximizing, ai, human) ==
    LET result == check_winner(b)
    IN  IF result = ai THEN WinScore(depth)
        ELSE IF result = human THEN LossScore(depth)
        ELSE IF is_full(b) THEN 0
        ELSE IF is_maximizing
        THEN SetMax({NegInf} \cup
                    { minimax(Place(b, c[1], c[2], ai), depth + 1, FALSE, ai, human) :
                          c \in EmptyCells(b) })
        ELSE SetMin({PosInf} \cup
                    { minimax(Place(b, c[1], c[2], human), depth + 1, TRUE, ai, human) :
                          c \in EmptyCells(b) })

\* The comparison with best_score starting at 0 instead of -inf.
ImprovesFromZero(score, best_score) == score > best_score /\ score > 0

\* Whether a trial score replaces best_score.
Improves(score, best_score) == score > best_score

\* get_best_move keeps the first cell, in loop order, whose score is
\* strictly greater than every score seen before it, which is the first cell
\* of maximal score; None on a full board.  scored pairs each empty cell
\* with the score of its trial move.
get_best_move(b, ai, human) ==
    LET scored == { <<c, minimax(Place(b, c[1], c[2], ai), 0, FALSE, ai, human)>> :
                        c \in EmptyCells(b) }
        kept   == { p[1] : p \in { p \in scored :
                                     /\ Improves(p[2], NegInf)
                                     /\ \A q \in scored : ~Improves(q[2], p[2]) } }
    IN  FirstCell(kept)

\* Stands for the string "No valid moves available", which is no cell number.
NoValidMoves == 0

\* run_algorithm(board=...) with the default TicTacToeAI('O', 'X'): the
\* cell number, or the string returned when get_best_move gives None.
run_algorithm(b) ==
    LET move == get_best_move(b, AI_SYMBOL, HUMAN_SYMBOL)
    IN  IF move = None THEN NoValidMoves
        ELSE rectangle_mapping[move]

----------------------------------------------------------------------------
(* src/src/mini_max_algo_v2.py (the same class is in src/src/test.py):     *)
(* the rule-priority engine                                                *)

LINES ==
    << << <<0,0>>, <<0,1>>, <<0,2>> >>, << <<1,0>>, <<1,1>>, <<1,2>> >>,
       << <<2,0>>, <<2,1>>, <<2,2>> >>,
       << <<0,0>>, <<1,0>>, <<2,0>> >>, << <<0,1>>, <<1,1>>, <<2,1>> >>,
       << <<0,2>>, <<1,2>>, <<2,2>> >>,
       << <<0,0>>, <<1,1>>, <<2,2>> >>, << <<0,2>>, <<1,1>>, <<2,0>> >> >>

\* vals = [board[r][c] for r, c in line]
LineVals(b, line) == [k \in 1..3 |-> b[line[k][1]][line[k][2]]]

\* vals.count(v)
CountVal(vals, v) == Cardinality({k \in 1..3 : vals[k] = v})

\* The first index of LINES among the indices S, or 0 if S is empty.
FirstLine(S) ==
    IF S = {} THEN 0
    ELSE CHOOSE n \in S : \A m \in S : n <= m

\* vals[0] == vals[1] == vals[2] != ''
FullLine(b, line) ==
    /\ b[line[1][1]][line[1][2]] = b[line[2][1]][line[2][2]]
    /\ b[line[2][1]][line[2][2]] = b[line[3][1]][line[3][2]]
    /\ b[line[3][1]][line[3][2]] # ""

v2_check_winner(b) ==
    LET n == FirstLine({n \in 1..8 : FullLine(b, LINES[n])})
    IN  IF n = 0 THEN None ELSE b[LINES[n][1][1]][LINES[n][1][2]]

\* vals.count(player) == 2 and vals.count('') == 1
ThreatLine(b, line, who) ==
    /\ CountVal(LineVals(b, line), who) = 2
    /\ CountVal(LineVals(b, line), "") = 1

v2_count_threats(b, who) ==
    Cardinality({n \in 1..8 : ThreatLine(b, LINES[n], who)})

\* The empty cell of the first threat line of LINES; None without a threat.
v2_find_threat_empty(b, who) ==
    LET n == FirstLine({n \in 1..8 : ThreatLine(b, LINES[n], who)})
    IN  IF n = 0 THEN None
        ELSE LINES[n][CHOOSE k \in 1..3 : b[LINES[n][k][1]][LINES[n][k][2]] = ""]

\* sum(row.count(s) for row in board)
SymbolCount(b, s) == Cardinality({c \in Idx \X Idx : b[c[1]][c[2]] = s})

Abs(n) == IF n < 0 THEN -n ELSE n

\* _validate_board letting the counts differ by two.
v2_validate_board_counts_two_apart(b, ai, human) ==
    IF \E c \in Idx \X Idx : b[c[1]][c[2]] \notin {"", ai, human}
    THEN "InvalidBoardError"
    ELSE IF Abs(SymbolCount(b, ai) - SymbolCount(b, human)) > 2
    THEN "InvalidBoardError"
    ELSE IF v2_check_winner(b) # None
    THEN "InvalidBoardError"
    ELSE None

\* _validate_board without the test for a game already won.
v2_validate_board_no_winner_test(b, ai, human) ==
    IF \E c \in Idx \X Idx : b[c[1]][c[2]] \notin {"", ai, human}
    THEN "InvalidBoardError"
    ELSE IF Abs(SymbolCount(b, ai) - SymbolCount(b, human)) > 1
    THEN "InvalidBoardError"
    ELSE None

\* _validate_board on a 3x3 list of lists: None when it returns, otherwise
\* the exception it raises.
v2_validate_board(b, ai, human) ==
    IF \E c \in Idx \X Idx : b[c[1]][c[2]] \notin {"", ai, human}
    THEN "InvalidBoardError"
    ELSE IF Abs(SymbolCount(b, ai) - SymbolCount(b, human)) > 1
    THEN "InvalidBoardError"
    ELSE IF v2_check_winner(b) # None
    THEN "InvalidBoardError"
    ELSE None

v2_find_winning_move(b, who) ==
    FirstCell({c \in EmptyCells(b) :
                   v2_check_winner(Place(b, c[1], c[2], who)) = who})

\* The threat count a trial move must reach to be a fork.
ForkThreats == 2

v2_find_all_forks(b, who) ==
    {c \in EmptyCells(b) :
         v2_count_threats(Place(b, c[1], c[2], who), who) >= ForkThreats}

v2_find_fork(b, who) == FirstCell(v2_find_all_forks(b, who))

\* Whether the trial move c of _create_forcing_threat is returned: it makes
\* a threat, and with the human on the empty cell of the first threat line
\* the human has no fork.
ForcingCell(b, c, ai, human) ==
    LET b1 == Place(b, c[1], c[2], ai)
    IN  /\ v2_count_threats(b1, ai) > 0
        /\ LET threat_pos == v2_find_threat_empty(b1, ai)
           IN  /\ threat_pos # None
               /\ v2_find_all_forks(Place(b1, threat_pos[1], threat_pos[2], human),
                                    human) = {}

v2_create_forcing_threat(b, ai, human) ==
    FirstCell({c \in EmptyCells(b) : ForcingCell(b, c, ai, human)})

v2_opposite_corner_skipped(b, human) == None

v2_opposite_corner(b, human) ==
    IF b[0][0] = human /\ b[2][2] = "" THEN <<2,2>>
    ELSE IF b[2][2] = human /\ b[0][0] = "" THEN <<0,0>>
    ELSE IF b[0][2] = human /\ b[2][0] = "" THEN <<2,0>>
    ELSE IF b[2][0] = human /\ b[0][2] = "" THEN <<0,2>>
    ELSE None

\* First cell of the sequence order that is empty; None if there is none.
FirstEmptyOf(b, order) ==
    IF \E k \in 1..Len(order) : b[order[k][1]][order[k][2]] = ""
    THEN order[CHOOSE k \in 1..Len(order) :
                   /\ b[order[k][1]][order[k][2]] = ""
                   /\ \A m \in 1..(k - 1) : b[order[m][1]][order[m][2]] # ""]
    ELSE None

Corners == << <<0,0>>, <<0,2>>, <<2,0>>, <<2,2>> >>
Edges == << <<0,1>>, <<1,0>>, <<1,2>>, <<2,1>> >>

\* Priorities 4 to 8 with the opposite corner tried before the centre.
v2_priorities_corner_before_centre(b, ai, human) ==
    LET forks   == v2_find_all_forks(b, human)
        forcing == IF Cardinality(forks) > 1
                   THEN v2_create_forcing_threat(b, ai, human) ELSE None
    IN  IF Cardinality(forks) = 1 THEN FirstCell(forks)
        ELSE IF forcing # None THEN forcing
        ELSE IF v2_opposite_corner(b, human) # None THEN v2_opposite_corner(b, human)
        ELSE IF b[1][1] = "" THEN <<1,1>>
        ELSE IF FirstEmptyOf(b, Corners) # None THEN FirstEmptyOf(b, Corners)
        ELSE IF FirstEmptyOf(b, Edges) # None THEN FirstEmptyOf(b, Edges)
        ELSE "ValueError"

\* Priorities 4 to 8, after win, block and fork gave no move.
v2_priorities_4_to_8(b, ai, human) ==
    LET forks   == v2_find_all_forks(b, human)
        forcing == IF Cardinality(forks) > 1
                   THEN v2_create_forcing_threat(b, ai, human) ELSE None
    IN  IF Cardinality(forks) = 1 THEN FirstCell(forks)
        ELSE IF forcing # None THEN forcing
        ELSE IF b[1][1] = "" THEN <<1,1>>
        ELSE IF v2_opposite_corner(b, human) # None THEN v2_opposite_corner(b, human)
        ELSE IF FirstEmptyOf(b, Corners) # None THEN FirstEmptyOf(b, Corners)
        ELSE IF FirstEmptyOf(b, Edges) # None THEN FirstEmptyOf(b, Edges)
        ELSE "ValueError"

\* get_best_move blocking before it wins.
v2_get_best_move_block_first(b, ai, human) ==
    IF v2_validate_board(b, ai, human) # None THEN v2_validate_board(b, ai, human)
    ELSE IF v2_find_winning_move(b, human) # None THEN v2_find_winning_move(b, human)
    ELSE IF v2_find_winning_move(b, ai) # None THEN v2_find_winning_move(b, ai)
    ELSE IF v2_find_fork(b, ai) # None THEN v2_find_fork(b, ai)
    ELSE v2_priorities_4_to_8(b, ai, human)

\* get_best_move without priority 2.
v2_get_best_move_no_block(b, ai, human) ==
    IF v2_validate_board(b, ai, human) # None THEN v2_validate_board(b, ai, human)
    ELSE IF v2_find_winning_move(b, ai) # None THEN v2_find_winning_move(b, ai)
    ELSE IF v2_find_fork(b, ai) # None THEN v2_find_fork(b, ai)
    ELSE v2_priorities_4_to_8(b, ai, human)

\* get_best_move without priority 3.
v2_get_best_move_no_fork(b, ai, human) ==
    IF v2_validate_board(b, ai, human) # None THEN v2_validate_board(b, ai, human)
    ELSE IF v2_find_winning_move(b, ai) # None THEN v2_find_winning_move(b, ai)
    ELSE IF v2_find_winning_move(b, human) # None THEN v2_find_winning_move(b, human)
    ELSE v2_priorities_4_to_8(b, ai, human)

\* The rule-priority get_best_move: a cell <<i, j>>, or the exception raised
\* ("InvalidBoardError" by _validate_board, "ValueError" with no move left).
v2_get_best_move(b, ai, human) ==
    IF v2_validate_board(b, ai, human) # None THEN v2_validate_board(b, ai, human)
    ELSE IF v2_find_winning_move(b, ai) # None THEN v2_find_winning_move(b, ai)
    ELSE IF v2_find_winning_move(b, human) # None THEN v2_find_winning_move(b, human)
    ELSE IF v2_find_fork(b, ai) # None THEN v2_find_fork(b, ai)
    ELSE v2_priorities_4_to_8(b, ai, human)

----------------------------------------------------------------------------
(* run_simulation.py: the validation helpers                               *)

\* The cell strings a capture can report: the empty cell, a capital X, and
\* the letter O in either case.
CellValues == {"", "X", "O", "o"}

\* str.lower() on the strings of the model.
Lower(s) ==
    CASE s = "X" -> "x"
      [] s = "O" -> "o"
      [] OTHER -> s

\* str.strip() on the strings of the model.
Strip(s) ==
    CASE s = " o" -> "o"
      [] OTHER -> s

\* A Python dict is a function on its keys.  The dicts of run_simulation.py
\* are looked up with integers and with tuples; a key is written as a tuple
\* here, the integer n as <<n>>, so that the two kinds of key can be compared.
IntKey(n) == <<n>>

\* rect_mapping_inv = {v: k for k, v in rectangle_mapping.items()}
rect_mapping_inv ==
    [k \in {IntKey(rectangle_mapping[c]) : c \in Idx \X Idx} |->
        CHOOSE c \in Idx \X Idx : IntKey(rectangle_mapping[c]) = k]

winning_table ==
    [k \in { <<1,2,3>>, <<4,5,6>>, <<7,8,9>>, <<1,4,7>>,
             <<2,5,8>>, <<3,6,9>>, <<1,5,9>>, <<3,5,7>> } |-> 1]

EmptyCache == [k \in {} |-> ""]

\* None where a grid is expected (grid_sim, grid_run), and where a cell
\* number is expected (rect).
NoneGrid == <<>>
NoRect == 0

\* The last cell of the loops' order in the non-empty set S.
LastCell(S) ==
    CellOrder[CHOOSE k \in 1..9 :
                  /\ CellOrder[k] \in S
                  /\ \A m \in (k + 1)..9 : CellOrder[m] \notin S]

\* find_rect without the look-up in the dict.
NewCellsNoLookup(grid, symbol, c) ==
    {k \in Idx \X Idx : Lower(grid[k[1]][k[2]]) = Lower(symbol)}

\* The cells find_rect takes: they hold the symbol, up to case, and have no
\* entry in the dict c.
NewCells(grid, symbol, c) ==
    {k \in Idx \X Idx :
         /\ Lower(grid[k[1]][k[2]]) = Lower(symbol)
         /\ k \notin DOMAIN c}

\* The value find_rect returns: rect is overwritten by every cell taken.
find_rect(grid, symbol, c) ==
    IF NewCells(grid, symbol, c) = {} THEN NoRect
    ELSE rectangle_mapping[LastCell(NewCells(grid, symbol, c))]

\* The dict after find_rect: cache[(i,j)] = symbol for every cell taken.
find_rect_cache(grid, symbol, c) ==
    [k \in DOMAIN c \cup NewCells(grid, symbol, c) |->
        IF k \in DOMAIN c THEN c[k] ELSE symbol]

validate_symbol_insertion(rect_number, symbol, grid) ==
    LET pos == rect_mapping_inv[IntKey(rect_number)]
    IN  Lower(Strip(grid[pos[1]][pos[2]])) = Lower(symbol)

\* grid_count of validate_grid_count.
GridCount(grid) == Cardinality({k \in Idx \X Idx : grid[k[1]][k[2]] # ""})

\* The count check with <= in place of ==.
validate_grid_count_at_least(grid, iteration_count) ==
    iteration_count <= GridCount(grid)

validate_grid_count(grid, iteration_count) ==
    iteration_count = GridCount(grid)

\* The cells of the grid equal to the symbol, in the loops' order.
SymbolCells(grid, symbol) ==
    SelectSeq(CellOrder, LAMBDA k : grid[k[1]][k[2]] = symbol)

\* human_symbol_records / robot_symbol_records when every lookup succeeds.
Records(grid, symbol) ==
    [n \in 1..Len(SymbolCells(grid, symbol)) |->
        rect_mapping_inv[SymbolCells(grid, symbol)[n]]]

\* check_win_or_not with the cells looked up in rectangle_mapping and each
\* flag set from its own records.
check_win_or_not_both_flags(grid, human, robot) ==
    LET line(symbol) ==
            \E t \in DOMAIN winning_table :
                \A n \in 1..3 :
                    grid[rect_mapping_inv[IntKey(t[n])][1]]
                        [rect_mapping_inv[IntKey(t[n])][2]] = symbol
    IN  [exc |-> None, human_win |-> line(human), robot_win |-> line(robot)]

\* check_win_or_not: exc is the exception it raises, None when it returns
\* (human_win, robot_win).  The loop looks (i, j) up in rect_mapping_inv for
\* every cell holding one of the two symbols; the if chain looks the tuple of
\* records up in winning_table.
check_win_or_not(grid, human, robot) ==
    LET hits == {k \in Idx \X Idx : grid[k[1]][k[2]] \in {human, robot}}
        ret(h, r) == [exc |-> None, human_win |-> h, robot_win |-> r]
        raise == [exc |-> "KeyError", human_win |-> FALSE, robot_win |-> FALSE]
    IN  IF \E k \in hits : k \notin DOMAIN rect_mapping_inv THEN raise
        ELSE LET hrec == Records(grid, human)
                 rrec == Records(grid, robot)
             IN  IF Len(rrec) < 3 /\ Len(hrec) < 3 THEN ret(FALSE, FALSE)
                 ELSE IF Len(rrec) > 2
                 THEN IF rrec \in DOMAIN winning_table
                      THEN ret(FALSE, winning_table[rrec] # 0) ELSE raise
                 ELSE IF hrec \in DOMAIN winning_table
                      THEN ret(winning_table[hrec] # 0, FALSE) ELSE raise

----------------------------------------------------------------------------
(* run_simulation.py: run_simulation_dobot                                 *)

\* What the user may type for the symbol, and for the starting player.
SymbolInputs == {"x", "o", "O", "z"}
PlayerInputs == {"1", "2", "3"}

\* A capture differs from the accepted board in at most MaxChanged cells, and
\* at most MaxNoise captures of a game are anything but one new mark of the
\* player to move.
MaxChanged == 2
MaxNoise == 1

\* while simulation_count < 9
MaxTurns == 9

\* The report after the loop.
Report(gs, hw, rw) ==
    IF gs = NoneGrid THEN "exit_grid_none"
    ELSE IF hw THEN "human_won"
    ELSE IF rw THEN "robot_won"
    ELSE "draw"

\* The grid g with the cells of D set as f says.
Altered(g, D, f) ==
    [i \in Idx |-> [j \in Idx |-> IF <<i, j>> \in D THEN f[<<i, j>>] ELSE g[i][j]]]

\* Every grid that differs from g in at most MaxChanged cells.
NoisyCaptures(g) ==
    UNION { { Altered(g, D, f) : f \in [D -> CellValues] } :
              D \in {D \in SUBSET (Idx \X Idx) : Cardinality(D) <= MaxChanged} }

\* The grids g plus one mark, up to case, of the symbol on a cell of S.
CleanCaptures(g, symbol, S) ==
    { Place(g, k[1], k[2], v) :
          k \in {k \in S : g[k[1]][k[2]] = ""},
          v \in {v \in CellValues : Lower(v) = Lower(symbol)} }

\* A string the vision service returns for a mark it cannot read.
UNREADABLE == "?"

\* A clean capture in which one of the earlier marks is read as UNREADABLE.
MisreadCaptures(g, symbol, S) ==
    { Place(c, k[1], k[2], UNREADABLE) :
          c \in CleanCaptures(g, symbol, S),
          k \in {k \in Idx \X Idx : g[k[1]][k[2]] # ""} }

\* What run_camera_dobot may return in a turn: None, a clean capture, or,
\* while the game has noise left, a noisy or a misread one.
Captures(g, symbol, S) ==
    {NoneGrid} \cup CleanCaptures(g, symbol, S)
        \cup (IF noise < MaxNoise
              THEN NoisyCaptures(g) \cup MisreadCaptures(g, symbol, S) ELSE {})

NoiseAfter(obs, g, symbol, S) ==
    IF obs = NoneGrid \/ obs \in CleanCaptures(g, symbol, S) THEN noise ELSE noise + 1

SimIdle ==
    /\ pc = "off"
    /\ outcome = "none"
    /\ human_symbol = None
    /\ robot_symbol = None
    /\ starting_player = None
    /\ player = None
    /\ simulation_count = 0
    /\ grid_sim = NoneGrid
    /\ human_win = FALSE
    /\ robot_win = FALSE
    /\ grid_run = NoneGrid
    /\ rect = NoRect
    /\ verdict = "none"
    /\ grid_prev = NoneGrid
    /\ turn_player = None
    /\ noise = 0
    /\ draw_log = <<>>
    /\ captured = FALSE

GameIdle == board = EmptyGrid /\ turn = "off"

NoResult == [exc |-> "not called", human_win |-> FALSE, robot_win |-> FALSE]

WinIdle == cw_grid = NoneGrid /\ cw_result = NoResult

LedgerIdle == fr_ret = NoRect /\ fr_calls = 0
CallIdle == ca_engine = "off" /\ ca_board = NoneGrid /\ ca_rets = <<>>

DrawIdle ==
    /\ dr_pc = "off"
    /\ dr_dobot = None
    /\ dr_conns = <<>>
    /\ dr_calls = <<>>
    /\ dr_capture_early = FALSE

InitSim ==
    /\ pc = "start"
    /\ outcome = "none"
    /\ human_symbol = None
    /\ robot_symbol = None
    /\ starting_player = None
    /\ player = None
    /\ simulation_count = 0
    /\ grid_sim = NoneGrid
    /\ human_win = FALSE
    /\ robot_win = FALSE
    /\ grid_run = NoneGrid
    /\ rect = NoRect
    /\ verdict = "none"
    /\ grid_prev = NoneGrid
    /\ turn_player = None
    /\ noise = 0
    /\ draw_log = <<>>
    /\ captured = FALSE
    /\ cache = EmptyCache
    /\ GameIdle /\ WinIdle /\ LedgerIdle /\ CallIdle /\ DrawIdle

\* Lines 169-259: the symbol (asked a second time after a wrong entry), the
\* robot's symbol, the starting player, the locals of the loop.
Setup(user_input, second_input, player_input) ==
    /\ pc = "start"
    /\ LET chosen == IF Lower(user_input) \in {"x", "o"} THEN user_input
                     ELSE IF Lower(second_input) \in {"x", "o"} THEN second_input
                     ELSE None
       IN  IF chosen = None
           THEN /\ pc' = "done"
                /\ outcome' = "exit_no_symbol"
                /\ UNCHANGED <<human_symbol, robot_symbol, starting_player, player,
                               grid_sim>>
           ELSE /\ pc' = "head"
                /\ outcome' = "none"
                /\ human_symbol' = chosen
                /\ robot_symbol' = (IF chosen = "o" THEN "x" ELSE "o")
                /\ starting_player' = (IF player_input = "2" THEN "2" ELSE "1")
                /\ player' = starting_player'
                /\ grid_sim' = EmptyGrid
    /\ UNCHANGED <<simulation_count, human_win, robot_win, grid_run, rect, verdict,
                   grid_prev, turn_player, noise, cache, draw_log, captured>>
    /\ UNCHANGED <<gamevars, winvars, ledgervars, callvars, drawvars>>

\* Lines 261-276, and 362-377 when the loop ends here: the loop test, the
\* counter, the winner check from the third iteration on.  grid_run and rect
\* are dead when an iteration begins (the turn assigns both before it reads
\* them): they are cleared here together with the record of the last turn.
LoopHead ==
    /\ pc = "head"
    /\ IF simulation_count < MaxTurns
       THEN /\ simulation_count' = simulation_count + 1
            /\ IF grid_sim = NoneGrid
               THEN /\ pc' = "done"
                    /\ outcome' = Report(grid_sim, human_win, robot_win)
                    /\ UNCHANGED <<human_win, robot_win>>
               ELSE IF simulation_count' >= 3
               THEN \E r \in {check_win_or_not(grid_sim, human_symbol, robot_symbol)} :
                        IF r.exc # None
                        THEN /\ pc' = "done"
                             /\ outcome' = "crash"
                             /\ UNCHANGED <<human_win, robot_win>>
                        ELSE /\ human_win' = r.human_win
                             /\ robot_win' = r.robot_win
                             /\ IF r.human_win \/ r.robot_win
                                THEN /\ pc' = "done"
                                     /\ outcome' = Report(grid_sim, r.human_win, r.robot_win)
                                ELSE /\ pc' = "turn"
                                     /\ outcome' = "none"
               ELSE /\ pc' = "turn"
                    /\ outcome' = "none"
                    /\ UNCHANGED <<human_win, robot_win>>
       ELSE /\ pc' = "done"
            /\ outcome' = Report(grid_sim, human_win, robot_win)
            /\ UNCHANGED <<simulation_count, human_win, robot_win>>
    /\ IF pc' = "turn"
       THEN /\ grid_run' = NoneGrid
            /\ rect' = NoRect
            /\ verdict' = "none"
            /\ grid_prev' = NoneGrid
            /\ turn_player' = None
            /\ draw_log' = <<>>
            /\ captured' = FALSE
       ELSE UNCHANGED <<grid_run, rect, verdict, grid_prev, turn_player, draw_log,
                        captured>>
    /\ UNCHANGED <<human_symbol, robot_symbol, starting_player, player, grid_sim,
                   noise, cache>>
    /\ UNCHANGED <<gamevars, winvars, ledgervars, callvars, drawvars>>

\* The branch lines 289-316 take on the capture obs, with rect and the dict
\* as find_rect leaves them.
HumanVerdict(obs, found) ==
    IF obs = NoneGrid THEN "crash"
    ELSE IF found = NoRect THEN "no_move_found"
    ELSE IF ~validate_grid_count(obs, simulation_count) THEN "count_mismatch"
    ELSE IF validate_symbol_insertion(found, human_symbol, obs) THEN "accepted"
    ELSE IF validate_symbol_insertion(found, robot_symbol, obs) THEN "wrong_symbol"
    ELSE "symbol_problem"

\* TurnEnds with the same player to move after an accepted turn.
TurnEndsSamePlayer(v, obs, next) ==
    /\ pc' = (IF v = "accepted" THEN "head" ELSE "done")
    /\ grid_sim' = (CASE v = "accepted" -> obs
                      [] v = "symbol_problem" -> NoneGrid
                      [] OTHER -> grid_sim)
    /\ player' = player
    /\ outcome' = (CASE v = "accepted" -> "none"
                     [] v = "crash" -> "crash"
                     [] v = "wrong_symbol" -> "exit_wrong_symbol"
                     [] OTHER -> Report(grid_sim', human_win, robot_win))

\* What a turn that ended with verdict v leaves in pc, outcome, grid_sim and
\* player; next is the player after an accepted turn.
TurnEnds(v, obs, next) ==
    /\ pc' = (IF v = "accepted" THEN "head" ELSE "done")
    /\ grid_sim' = (CASE v = "accepted" -> obs
                      [] v = "symbol_problem" -> NoneGrid
                      [] OTHER -> grid_sim)
    /\ player' = (IF v = "accepted" THEN next ELSE player)
    /\ outcome' = (CASE v = "accepted" -> "none"
                     [] v = "crash" -> "crash"
                     [] v = "wrong_symbol" -> "exit_wrong_symbol"
                     [] OTHER -> Report(grid_sim', human_win, robot_win))

\* Lines 278-318: the human's turn on the capture obs; the turn asks for no
\* drawing.
HumanTurn(obs) ==
    /\ pc = "turn"
    /\ player = "2"
    /\ draw_log' = <<>>
    /\ captured' = TRUE
    /\ grid_run' = obs
    /\ grid_prev' = grid_sim
    /\ turn_player' = player
    /\ noise' = NoiseAfter(obs, grid_sim, human_symbol, Idx \X Idx)
    /\ rect' = (IF obs = NoneGrid THEN rect ELSE find_rect(obs, human_symbol, cache))
    /\ cache' = (IF obs = NoneGrid THEN cache
                 ELSE find_rect_cache(obs, human_symbol, cache))
    /\ verdict' = HumanVerdict(obs, rect')
    /\ TurnEnds(verdict', obs, "1")
    /\ UNCHANGED <<human_symbol, robot_symbol, starting_player, simulation_count,
                   human_win, robot_win>>
    /\ UNCHANGED <<gamevars, winvars, ledgervars, callvars, drawvars>>

\* The branch lines 341-357 take on grid_run, None after a failed draw.
RobotVerdict(rectangle, run) ==
    IF rectangle = NoValidMoves \/ run = NoneGrid THEN "crash"
    ELSE IF ~validate_grid_count(run, simulation_count) THEN "count_mismatch"
    ELSE IF validate_symbol_insertion(rectangle, robot_symbol, run) THEN "accepted"
    ELSE "symbol_problem"

\* Line 331: the calls of dm.draw in a robot turn, each with what it returned;
\* int(rectangle) raises before the call when run_algorithm returned a message.
DrawRequests(rectangle, symbol, ret) ==
    IF rectangle = NoValidMoves THEN <<>>
    ELSE <<[rectangle_number |-> rectangle, dobot_symbol |-> symbol, ret |-> ret]>>

CaptureTakenUnconditionally(rectangle, ret) == rectangle # NoValidMoves

\* Line 335, if ret: whether the robot turn goes on to line 337, the capture.
CaptureTaken(rectangle, ret) == ret /\ rectangle # NoValidMoves

\* Lines 321-359: the robot's turn; ret is what dm.draw returns, obs what
\* the capture after a successful draw returns.
RobotTurn(rectangle, ret, obs) ==
    /\ pc = "turn"
    /\ player = "1"
    /\ rect' = rectangle
    /\ draw_log' = DrawRequests(rectangle, robot_symbol, ret)
    /\ captured' = CaptureTaken(rectangle, ret)
    /\ grid_run' = (IF captured' THEN obs ELSE NoneGrid)
    /\ grid_prev' = grid_sim
    /\ turn_player' = player
    /\ noise' = (IF captured'
                 THEN NoiseAfter(obs, grid_sim, robot_symbol,
                                        {rect_mapping_inv[IntKey(rectangle)]})
                 ELSE noise)
    /\ verdict' = RobotVerdict(rectangle, grid_run')
    /\ TurnEnds(verdict', grid_run', "2")
    /\ UNCHANGED <<human_symbol, robot_symbol, starting_player, simulation_count,
                   human_win, robot_win, cache>>
    /\ UNCHANGED <<gamevars, winvars, ledgervars, callvars, drawvars>>

NextSim ==
    \/ \E u1 \in SymbolInputs, u2 \in SymbolInputs, p \in PlayerInputs : Setup(u1, u2, p)
    \/ LoopHead
    \/ /\ pc = "turn" /\ player = "2"
       /\ \E obs \in Captures(grid_sim, human_symbol, Idx \X Idx) : HumanTurn(obs)
    \/ /\ pc = "turn" /\ player = "1"
       /\ \E rectangle \in {run_algorithm(grid_sim)} :
              \E ret \in BOOLEAN :
                  \E obs \in IF CaptureTaken(rectangle, ret)
                             THEN Captures(grid_sim, robot_symbol,
                                           {rect_mapping_inv[IntKey(rectangle)]})
                             ELSE {NoneGrid} :
                      RobotTurn(rectangle, ret, obs)

SpecSim == InitSim /\ [][NextSim]_vars

----------------------------------------------------------------------------
(* check_win_or_not alone, on every board over {'', 'X', 'O'}              *)

CW_HUMAN == "X"
CW_ROBOT == "O"

InitWin ==
    /\ cw_grid \in [Idx -> [Idx -> {"", CW_HUMAN, CW_ROBOT}]]
    /\ cw_result = NoResult
    /\ SimIdle /\ cache = EmptyCache /\ GameIdle /\ LedgerIdle /\ CallIdle /\ DrawIdle

CheckWin ==
    /\ cw_result = NoResult
    /\ cw_result' = check_win_or_not(cw_grid, CW_HUMAN, CW_ROBOT)
    /\ UNCHANGED <<cw_grid, simvars, cache, gamevars, ledgervars, callvars, drawvars>>

NextWin == CheckWin

SpecWin == InitWin /\ [][NextWin]_vars

----------------------------------------------------------------------------
(* find_rect alone: a sequence of calls on the module-level dict           *)

\* The calls of a run.
MaxCalls == 3

\* The grids of the calls: any marks on the four cells of the upper left
\* block, the other cells empty.
LedgerCells == {<<0,0>>, <<0,1>>, <<1,0>>, <<1,1>>}

LedgerGrids ==
    { Altered(EmptyGrid, LedgerCells, f) : f \in [LedgerCells -> CellValues] }

LedgerSymbols == {"x", "o", "O"}

InitLedger ==
    /\ cache = EmptyCache
    /\ fr_ret = NoRect
    /\ fr_calls = 0
    /\ SimIdle /\ GameIdle /\ WinIdle /\ CallIdle /\ DrawIdle

FindRectCall(grid, symbol) ==
    /\ fr_calls < MaxCalls
    /\ fr_calls' = fr_calls + 1
    /\ fr_ret' = find_rect(grid, symbol, cache)
    /\ cache' = find_rect_cache(grid, symbol, cache)
    /\ UNCHANGED <<simvars, gamevars, winvars, callvars, drawvars>>

NextLedger == \E grid \in LedgerGrids, symbol \in LedgerSymbols : FindRectCall(grid, symbol)

SpecLedger == InitLedger /\ [][NextLedger]_vars

----------------------------------------------------------------------------
(* Engine games: the human (X) plays any legal move, the AI (O) plays the  *)
(* engine's move, from the empty board, either side first.                 *)

WinLines ==
    { {<<0,0>>, <<0,1>>, <<0,2>>}, {<<1,0>>, <<1,1>>, <<1,2>>}, {<<2,0>>, <<2,1>>, <<2,2>>},
      {<<0,0>>, <<1,0>>, <<2,0>>}, {<<0,1>>, <<1,1>>, <<2,1>>}, {<<0,2>>, <<1,2>>, <<2,2>>},
      {<<0,0>>, <<1,1>>, <<2,2>>}, {<<0,2>>, <<1,1>>, <<2,0>>} }

HasLine(b, s) == \E l \in WinLines : \A c \in l : b[c[1]][c[2]] = s

GameOver(b) == HasLine(b, AI_SYMBOL) \/ HasLine(b, HUMAN_SYMBOL) \/ is_full(b)

InitSearch ==
    /\ board = EmptyGrid
    /\ turn \in {"ai", "human"}
    /\ SimIdle /\ cache = EmptyCache /\ WinIdle /\ LedgerIdle /\ CallIdle /\ DrawIdle

HumanMove(i, j) ==
    /\ turn = "human"
    /\ ~GameOver(board)
    /\ board[i][j] = ""
    /\ board' = Place(board, i, j, HUMAN_SYMBOL)
    /\ turn' = "ai"
    /\ UNCHANGED <<simvars, cache, winvars, ledgervars, callvars, drawvars>>

\* The AI's move is the cell get_best_move returns on the current board.
SearchMove ==
    /\ turn = "ai"
    /\ ~GameOver(board)
    /\ \E move \in {get_best_move(board, AI_SYMBOL, HUMAN_SYMBOL)} :
           /\ move \in Idx \X Idx
           /\ board' = Place(board, move[1], move[2], AI_SYMBOL)
    /\ turn' = "human"
    /\ UNCHANGED <<simvars, cache, winvars, ledgervars, callvars, drawvars>>

NextSearch ==
    \/ \E i \in Idx : \E j \in Idx : HumanMove(i, j)
    \/ SearchMove

SpecSearch == InitSearch /\ [][NextSearch]_vars

HeuristicMove ==
    /\ turn = "ai"
    /\ ~GameOver(board)
    /\ \E move \in {v2_get_best_move(board, AI_SYMBOL, HUMAN_SYMBOL)} :
           /\ move \in Idx \X Idx
           /\ board' = Place(board, move[1], move[2], AI_SYMBOL)
    /\ turn' = "human"
    /\ UNCHANGED <<simvars, cache, winvars, ledgervars, callvars, drawvars>>

NextHeuristic ==
    \/ \E i \in Idx : \E j \in Idx : HumanMove(i, j)
    \/ HeuristicMove

SpecHeuristic == InitSearch /\ [][NextHeuristic]_vars

\* C1: with the minimax engine playing O, no reachable board holds three X
\* in a WinLine.
SearchNeverLoses == ~HasLine(board, HUMAN_SYMBOL)

\* A game the human opened and played to the last cell: five X, four O, and
\* every X line was blocked by the engine.
SearchGameDrawn ==
    /\ is_full(board)
    /\ SymbolCount(board, HUMAN_SYMBOL) = 5
    /\ ~HasLine(board, AI_SYMBOL)
    /\ turn = "ai"

\* C2: with the rule-priority engine playing O, no reachable board holds
\* three X in a WinLine.
HeuristicNeverLoses == ~HasLine(board, HUMAN_SYMBOL)

----------------------------------------------------------------------------
(* The engines called on a board object                                    *)

\* A Python list: a value that is a list, with its items.
ListOf(items) == [list |-> TRUE, items |-> items]

\* A tuple, or None (no items): a value that is no list.
NotAList(items) == [list |-> FALSE, items |-> items]

\* None passed as the board.
NoneBoard == NotAList(<<>>)

\* The rows of a grid, as Python lists.
RowOf(g, i) == ListOf(<<g[i][0], g[i][1], g[i][2]>>)

\* The list of three 3-element lists of a grid.
BoardOf(g) == ListOf(<<RowOf(g, 0), RowOf(g, 1), RowOf(g, 2)>>)

\* The ways in which a board object fails to be a list of three 3-element
\* lists.
Defects ==
    {"None", "tuple of rows", "two rows", "four rows", "row is a tuple",
     "short row", "long row"}

Malformed(g, defect) ==
    CASE defect = "None" -> NoneBoard
      [] defect = "tuple of rows" -> NotAList(BoardOf(g).items)
      [] defect = "two rows" -> ListOf(<<RowOf(g, 0), RowOf(g, 1)>>)
      [] defect = "four rows" -> ListOf(Append(BoardOf(g).items, RowOf(g, 0)))
      [] defect = "row is a tuple" ->
             ListOf(<<RowOf(g, 0), NotAList(RowOf(g, 1).items), RowOf(g, 2)>>)
      [] defect = "short row" ->
             ListOf(<<RowOf(g, 0), RowOf(g, 1), ListOf(<<g[2][0], g[2][1]>>)>>)
      [] defect = "long row" ->
             ListOf(<<ListOf(Append(RowOf(g, 0).items, "")), RowOf(g, 1), RowOf(g, 2)>>)

\* The two isinstance / len tests of _validate_board.
v2_shape_error(b) ==
    \/ ~b.list
    \/ Len(b.items) # 3
    \/ \E k \in 1..Len(b.items) : ~b.items[k].list \/ Len(b.items[k].items) # 3

\* board[i][j] of a list of three 3-element lists.
GridOf(b) == [i \in Idx |-> [j \in Idx |-> b.items[i + 1].items[j + 1]]]

\* What a call gives: the exception raised (None if it returns) and the
\* value returned (None if it raises).
Returned(value) == [exc |-> None, value |-> value]
Raised(exc) == [exc |-> exc, value |-> None]

Exceptions == {"InvalidBoardError", "ValueError"}

\* TicTacToeAI.get_best_move of the rule-priority engine on a board object.
v2_call_get_best_move(b, ai, human) ==
    IF v2_shape_error(b) THEN Raised("InvalidBoardError")
    ELSE LET move == v2_get_best_move(GridOf(b), ai, human)
         IN  IF move \in Exceptions THEN Raised(move) ELSE Returned(move)

\* run_algorithm of the rule-priority engine with the default symbols: the
\* position 1..9, written <<n>>, or the exception.
v2_run_algorithm(b) ==
    IF b = NoneBoard THEN Raised("ValueError")
    ELSE LET got == v2_call_get_best_move(b, AI_SYMBOL, HUMAN_SYMBOL)
         IN  IF got.exc # None THEN got
             ELSE Returned(<<rectangle_mapping[got.value]>>)

\* run_algorithm of the search engine, from the move get_best_move gave.
mm_run_algorithm(move) ==
    IF move = None THEN Returned(<<NoValidMoves>>)
    ELSE Returned(<<rectangle_mapping[move]>>)

\* TicTacToeAI.get_best_move of the search engine on a list of three
\* 3-element lists.
mm_call_get_best_move(b, ai, human) == Returned(get_best_move(GridOf(b), ai, human))

\* The reset left out.
UndoForgotten(g, c) == g

\* The reset writing a blank instead of the empty string.
UndoToBlank(g, c) == Place(g, c[1], c[2], " ")

\* board[i][j] = '' after a trial move.
Undo(g, c) == Place(g, c[1], c[2], "")

\* The board object after the first loop over the cells of get_best_move
\* (search engine) or _find_winning_move (rule-priority engine): each empty
\* cell, in row-major order, is set to the symbol and set back to ''.  Every
\* later loop of the engines sets and resets the same way.
RECURSIVE AfterTrials(_, _, _)
AfterTrials(g, who, k) ==
    IF k > Len(CellOrder) THEN g
    ELSE LET c == CellOrder[k]
         IN  IF g[c[1]][c[2]] = ""
             THEN AfterTrials(Undo(Place(g, c[1], c[2], who), c), who, k + 1)
             ELSE AfterTrials(g, who, k + 1)

\* The board object after a call of get_best_move.
BoardAfterCall(engine, b, ai, human) ==
    IF engine = "search" THEN BoardOf(AfterTrials(GridOf(b), ai, 1))
    ELSE IF v2_call_get_best_move(b, ai, human).exc = "InvalidBoardError" THEN b
    ELSE BoardOf(AfterTrials(GridOf(b), ai, 1))

CallGetBestMove(engine, b, ai, human) ==
    IF engine = "search" THEN mm_call_get_best_move(b, ai, human)
    ELSE v2_call_get_best_move(b, ai, human)

\* What run_algorithm(board=b) gives, got being what its get_best_move gave.
CallRunAlgorithm(engine, b, got) ==
    IF engine = "search" THEN mm_run_algorithm(got.value)
    ELSE v2_run_algorithm(b)

\* A symbol that is neither player's.
FOREIGN_SYMBOL == "Z"

\* Boards over the empty cell and the two players' symbols.
PlayerGrids == [Idx -> [Idx -> {"", AI_SYMBOL, HUMAN_SYMBOL}]]

\* The same with foreign symbols, which are kept to the top row.
AnyGrids ==
    {g \in [Idx -> [Idx -> {"", AI_SYMBOL, HUMAN_SYMBOL, FOREIGN_SYMBOL}]] :
         \A i \in {1, 2}, j \in Idx : g[i][j] # FOREIGN_SYMBOL}

\* The boards _validate_board lets through.
ValidGrids ==
    {g \in PlayerGrids : v2_validate_board(g, AI_SYMBOL, HUMAN_SYMBOL) = None}

\* The boards on which it can be the AI's turn: the human has made as many
\* moves as the AI, or one more.
CountedGrids ==
    {g \in PlayerGrids :
         SymbolCount(g, HUMAN_SYMBOL) - SymbolCount(g, AI_SYMBOL) \in {0, 1}}

\* The search engine is called on the boards of CountedGrids, the
\* rule-priority engine on every board of AnyGrids and on the valid boards
\* with a defect of shape.
InitCall ==
    /\ \/ /\ ca_engine = "heuristic"
          /\ \/ \E g \in AnyGrids : ca_board = BoardOf(g)
             \/ \E g \in ValidGrids, defect \in Defects : ca_board = Malformed(g, defect)
       \/ /\ ca_engine = "search"
          /\ \E g \in CountedGrids : ca_board = BoardOf(g)
    /\ ca_rets = <<>>
    /\ SimIdle /\ cache = EmptyCache /\ GameIdle /\ WinIdle /\ LedgerIdle /\ DrawIdle

\* get_best_move(board) and run_algorithm(board=board) with the default
\* symbols: move is what the first gives, pos what the second gives.
FirstCall ==
    /\ ca_engine # "off"
    /\ ca_rets = <<>>
    /\ \E got \in {CallGetBestMove(ca_engine, ca_board, AI_SYMBOL, HUMAN_SYMBOL)} :
           ca_rets' = <<[move |-> got,
                         pos |-> CallRunAlgorithm(ca_engine, ca_board, got)]>>
    /\ ca_board' = BoardAfterCall(ca_engine, ca_board, AI_SYMBOL, HUMAN_SYMBOL)
    /\ UNCHANGED <<ca_engine, simvars, cache, gamevars, winvars, ledgervars, drawvars>>

\* get_best_move on the same board object, again.
SecondCall ==
    /\ ca_engine # "off"
    /\ Len(ca_rets) = 1
    /\ \E got \in {CallGetBestMove(ca_engine, ca_board, AI_SYMBOL, HUMAN_SYMBOL)} :
           ca_rets' = Append(ca_rets,
                             [move |-> got,
                              pos |-> CallRunAlgorithm(ca_engine, ca_board, got)])
    /\ ca_board' = BoardAfterCall(ca_engine, ca_board, AI_SYMBOL, HUMAN_SYMBOL)
    /\ UNCHANGED <<ca_engine, simvars, cache, gamevars, winvars, ledgervars, drawvars>>

NextCall == FirstCall \/ SecondCall

SpecCall == InitCall /\ [][NextCall]_vars

----------------------------------------------------------------------------
(* The record of the last turn of run_simulation_dobot                     *)

\* The cells in which two grids differ.
DiffCells(g1, g2) == {k \in Idx \X Idx : g1[k[1]][k[2]] # g2[k[1]][k[2]]}

\* A turn was played on a capture, and its record is still in the state.
TurnOnCapture == verdict # "none" /\ grid_run # NoneGrid /\ grid_prev # NoneGrid

\* The capture of the last turn is the board before it plus marks on n cells
\* that were empty.
CaptureAdds(n) ==
    /\ TurnOnCapture
    /\ Cardinality(DiffCells(grid_prev, grid_run)) = n
    /\ \A k \in DiffCells(grid_prev, grid_run) : grid_prev[k[1]][k[2]] = ""

\* The symbol of the player of the last turn.
MoverSymbol == IF turn_player = "2" THEN human_symbol ELSE robot_symbol

Rejections == {"no_move_found", "count_mismatch", "wrong_symbol", "symbol_problem"}

\* C3: every capture adopted as the accepted board differs from the board
\* accepted before in exactly one cell, which was empty and now holds the
\* symbol of the player to move (up to case and padding).
ValidatorSound ==
    verdict = "accepted" =>
        \E k \in Idx \X Idx :
            /\ DiffCells(grid_prev, grid_sim) = {k}
            /\ grid_prev[k[1]][k[2]] = ""
            /\ Lower(Strip(grid_sim[k[1]][k[2]])) = Lower(MoverSymbol)

\* C5: a game reported as a draw ended on a full accepted board on which no
\* WinLine holds three equal symbols.
DrawMeansFullBoard ==
    outcome = "draw" =>
        /\ grid_sim # NoneGrid
        /\ is_full(grid_sim)
        /\ \A l \in WinLines :
               \E c \in l, d \in l : grid_sim[c[1]][c[2]] # grid_sim[d[1]][d[2]]

\* C6: a rejected capture ends the game, and not as a human win, a robot win
\* or a draw.
RejectAborts ==
    verdict \in Rejections =>
        /\ pc = "done"
        /\ outcome \notin {"human_won", "robot_won", "draw"}

\* C7, as claimed: the accepted board holds simulation_count symbols after
\* every accepted turn, a capture is adopted only with that count, and a
\* capture adding two symbols is rejected as a count mismatch.
CountInvariantAsClaimed ==
    /\ pc = "head" => GridCount(grid_sim) = simulation_count
    /\ pc = "head" /\ verdict = "accepted" =>
           grid_sim = grid_run /\ GridCount(grid_run) = simulation_count
    /\ CaptureAdds(2) => verdict = "count_mismatch"

\* C7, amended: as claimed, but a capture adding two symbols on a human turn
\* in which find_rect found no cell is rejected as no move found, before the
\* count is looked at; in every other turn it is a count mismatch.
CountInvariant ==
    /\ pc = "head" => GridCount(grid_sim) = simulation_count
    /\ pc = "head" /\ verdict = "accepted" =>
           grid_sim = grid_run /\ GridCount(grid_run) = simulation_count
    /\ CaptureAdds(2) =>
           /\ grid_sim # grid_run
           /\ verdict = (IF turn_player = "2" /\ rect = NoRect
                         THEN "no_move_found" ELSE "count_mismatch")

\* A capture with two new symbols was rejected as a count mismatch.
TwoSymbolsRejectedByCount == CaptureAdds(2) /\ verdict = "count_mismatch"

\* C8: on a human turn, a capture whose single new cell holds the robot's
\* symbol, not the human's, is rejected through the wrong-symbol branch.
WrongSymbolBranch ==
    ( /\ CaptureAdds(1)
      /\ turn_player = "2"
      /\ \A k \in DiffCells(grid_prev, grid_run) :
             /\ Lower(grid_run[k[1]][k[2]]) = Lower(robot_symbol)
             /\ Lower(grid_run[k[1]][k[2]]) # Lower(human_symbol) )
    => verdict = "wrong_symbol"

\* C9: with distinct symbols, a human turn whose capture is the accepted
\* board plus one new cell p holding the human's symbol up to case, the
\* count being the turn index, is accepted with rect = p.
ValidatorComplete ==
    ( /\ CaptureAdds(1)
      /\ turn_player = "2"
      /\ Lower(human_symbol) # Lower(robot_symbol)
      /\ GridCount(grid_run) = simulation_count
      /\ \A k \in DiffCells(grid_prev, grid_run) :
             Lower(grid_run[k[1]][k[2]]) = Lower(human_symbol) )
    => /\ verdict = "accepted"
       /\ \A k \in DiffCells(grid_prev, grid_run) : rect = rectangle_mapping[k]

\* C4: check_win_or_not returns without raising, human_win exactly when X
\* holds a WinLine and robot_win exactly when O does.
CheckWinCorrect ==
    cw_result # NoResult =>
        /\ cw_result.exc = None
        /\ cw_result.human_win = HasLine(cw_grid, CW_HUMAN)
        /\ cw_result.robot_win = HasLine(cw_grid, CW_ROBOT)

\* C10: find_rect never returns a cell that had an entry in the dict before
\* the call, and no call removes an entry or changes its symbol.
LedgerMonotone ==
    [][ /\ \A k \in DOMAIN cache : k \in DOMAIN cache' /\ cache'[k] = cache[k]
        /\ fr_ret' # NoRect => rect_mapping_inv[IntKey(fr_ret')] \notin DOMAIN cache
      ]_vars

\* Three calls were made and the dict holds entries recorded with different
\* symbols.
LedgerHoldsTwoSymbols ==
    /\ fr_calls = MaxCalls
    /\ fr_ret # NoRect
    /\ \E k \in DOMAIN cache, m \in DOMAIN cache : cache[k] # cache[m]

\* C11: once the symbol input is accepted, robot_symbol differs from
\* human_symbol also when both are lower-cased, and no step changes either.
SymbolsDistinctIgnoringCase ==
    [][ human_symbol' # None =>
            /\ Lower(human_symbol') # Lower(robot_symbol')
            /\ human_symbol # None =>
                   human_symbol' = human_symbol /\ robot_symbol' = robot_symbol
      ]_vars

----------------------------------------------------------------------------
(* Calls of the rule-priority engine                                       *)

\* The rule-priority engine was called on a list of three 3-element lists.
HeuristicCalled ==
    ca_engine = "heuristic" /\ ca_rets # <<>> /\ ~v2_shape_error(ca_board)

\* Three equal non-empty symbols in a line.
HasFullLine(g) == \E n \in 1..8 : FullLine(g, LINES[n])

EndGameReturnsLastCell ==
    ( /\ HeuristicCalled
      /\ GridOf(ca_board) \in PlayerGrids
      /\ Cardinality(EmptyCells(GridOf(ca_board))) = 1 )
    => \A c \in EmptyCells(GridOf(ca_board)) :
           ca_rets[1].pos = Returned(<<rectangle_mapping[c]>>)

\* The empty cells on which a mark of who completes three in a line.
WinningCells(g, who) ==
    {c \in EmptyCells(g) : HasLine(Place(g, c[1], c[2], who), who)}

\* The centre is empty, neither player has an immediate winning cell and
\* neither has a fork cell.
QuietWithCentre(g) ==
    /\ g[1][1] = ""
    /\ WinningCells(g, AI_SYMBOL) = {}
    /\ WinningCells(g, HUMAN_SYMBOL) = {}
    /\ v2_find_all_forks(g, AI_SYMBOL) = {}
    /\ v2_find_all_forks(g, HUMAN_SYMBOL) = {}

\* C15, as claimed: get_best_move returns the centre whenever the centre is
\* empty and neither player has an immediate winning cell or a fork cell.
CentreWhenQuietAsClaimed ==
    HeuristicCalled /\ QuietWithCentre(GridOf(ca_board)) =>
        ca_rets[1].move = Returned(<<1, 1>>)

\* C15, amended: the same on the boards whose cells hold '' and the two
\* players' symbols only.
CentreWhenQuiet ==
    ( /\ HeuristicCalled
      /\ GridOf(ca_board) \in PlayerGrids
      /\ QuietWithCentre(GridOf(ca_board)) )
    => ca_rets[1].move = Returned(<<1, 1>>)

\* The call on a board holding a single human mark, in a corner, returned
\* the centre.
CentreAfterCornerOpening ==
    /\ HeuristicCalled
    /\ GridOf(ca_board) = Place(EmptyGrid, 0, 0, HUMAN_SYMBOL)
    /\ ca_rets[1].move = Returned(<<1, 1>>)

\* C16: run_algorithm of the search engine returns position 5, the centre,
\* on the empty board.
SearchOpensInCentre ==
    ( /\ ca_engine = "search"
      /\ ca_rets # <<>>
      /\ GridOf(ca_board) = EmptyGrid )
    => ca_rets[1].pos = Returned(<<rectangle_mapping[<<1, 1>>]>>)

BlockSecond ==
    ( /\ HeuristicCalled
      /\ GridOf(ca_board) \in ValidGrids
      /\ WinningCells(GridOf(ca_board), AI_SYMBOL) = {}
      /\ WinningCells(GridOf(ca_board), HUMAN_SYMBOL) # {} )
    => /\ ca_rets[1].move.exc = None
       /\ ca_rets[1].move.value \in WinningCells(GridOf(ca_board), HUMAN_SYMBOL)

\* The human had two winning cells, the AI none, and the call returned one
\* of the two.
BlockedOneOfTwo ==
    /\ HeuristicCalled
    /\ GridOf(ca_board) \in ValidGrids
    /\ WinningCells(GridOf(ca_board), AI_SYMBOL) = {}
    /\ Cardinality(WinningCells(GridOf(ca_board), HUMAN_SYMBOL)) = 2
    /\ ca_rets[1].move.value \in WinningCells(GridOf(ca_board), HUMAN_SYMBOL)

MappingsInverse ==
    /\ DOMAIN rectangle_mapping = Idx \X Idx
    /\ DOMAIN rect_mapping_inv = {IntKey(p) : p \in 1..9}
    /\ \A c \in Idx \X Idx :
           /\ rect_mapping_inv[IntKey(rectangle_mapping[c])] = c
           /\ rectangle_mapping[c] = 3 * c[1] + c[2] + 1
    /\ \A p \in 1..9 : rectangle_mapping[rect_mapping_inv[IntKey(p)]] = p
    /\ fr_ret # NoRect => rectangle_mapping[rect_mapping_inv[IntKey(fr_ret)]] = fr_ret

\* find_rect returned the position of the cell (1, 1), looked up in
\* rectangle_mapping, and rect_mapping_inv leads back to the cell.
FoundCentrePosition ==
    /\ fr_ret # NoRect
    /\ rect_mapping_inv[IntKey(fr_ret)] = <<1, 1>>
    /\ <<1, 1>> \in DOMAIN cache

----------------------------------------------------------------------------
(* check_win_or_not, the game loop and the engines: further properties     *)

\* C21: no call of check_win_or_not returns (True, True), on any board.
NeverBothWin ==
    cw_result # NoResult =>
        ~(cw_result.exc = None /\ cw_result.human_win /\ cw_result.robot_win)

\* check_win_or_not was called on a board on which both symbols hold a line.
CalledOnDoubleLine ==
    /\ cw_result # NoResult
    /\ HasLine(cw_grid, CW_HUMAN)
    /\ HasLine(cw_grid, CW_ROBOT)

\* C22: every capture adopted as the accepted board is a 3x3 grid whose
\* cells are each '', the human symbol or the robot symbol, up to case; a
\* capture with any other cell value is not adopted.
AdoptedCellsValid ==
    verdict = "accepted" =>
        \A k \in Idx \X Idx :
            Lower(Strip(grid_sim[k[1]][k[2]]))
                \in {"", Lower(human_symbol), Lower(robot_symbol)}

\* The cells of a grid that are not ''.
FilledCells(g) == {k \in Idx \X Idx : g[k[1]][k[2]] # ""}

\* C23: an accepted turn, human or robot, adds exactly one cell to the dict
\* of find_rect, a rejected capture leaves the dict as it was, and after an
\* accepted turn the dict holds the filled cells of the accepted board.
LedgerFollowsTurns ==
    [][ /\ verdict = "none" /\ verdict' = "accepted" =>
               /\ Cardinality(DOMAIN cache') = Cardinality(DOMAIN cache) + 1
               /\ DOMAIN cache' = FilledCells(grid_sim')
        /\ verdict = "none" /\ verdict' \in Rejections => cache' = cache
      ]_vars

\* C24: a robot turn makes exactly one call of dm.draw, for the rectangle
\* run_algorithm returned and with robot_symbol, and asks for a capture only
\* when that call returned True; a human turn makes no call of dm.draw.
OneDrawPerRobotTurn ==
    /\ turn_player = "1" =>
           /\ Len(draw_log) = 1
           /\ draw_log[1].rectangle_number = rect
           /\ rect \in 1..9
           /\ draw_log[1].dobot_symbol = robot_symbol
           /\ captured => draw_log[1].ret
    /\ turn_player = "2" => draw_log = <<>>

DrawFailedNoCapture ==
    /\ turn_player = "1" /\ simulation_count > 1
    /\ Len(draw_log) = 1 /\ ~draw_log[1].ret /\ ~captured /\ grid_run = NoneGrid

\* C29: the board a robot turn passed to run_algorithm holds no line of
\* three equal symbols and has an empty cell, and run_algorithm returned a
\* position and not its no-move message.
EngineBoardInProgress ==
    turn_player = "1" =>
        /\ ~HasFullLine(grid_prev)
        /\ EmptyCells(grid_prev) # {}
        /\ rect # NoValidMoves

\* C30: in a robot turn the symbols run_algorithm plays for and against are,
\* up to case, the symbol the robot draws and the symbol of the human.
EngineSymbolsAreTheGameSymbols ==
    turn_player = "1" =>
        /\ Lower(AI_SYMBOL) = Lower(robot_symbol)
        /\ Lower(HUMAN_SYMBOL) = Lower(human_symbol)

\* The lines of g with exactly two marks of who and one empty cell.
Threats(g, who) ==
    {l \in WinLines : /\ Cardinality({c \in l : g[c[1]][c[2]] = who}) = 2
                      /\ Cardinality({c \in l : g[c[1]][c[2]] = ""}) = 1}

\* The empty cells on which a mark of who gives who two or more threats.
ForkCells(g, who) ==
    {c \in EmptyCells(g) : Cardinality(Threats(Place(g, c[1], c[2], who), who)) >= 2}

\* Neither player has a cell that completes three in a line.
NoImmediateWin(g) ==
    WinningCells(g, AI_SYMBOL) = {} /\ WinningCells(g, HUMAN_SYMBOL) = {}

\* C25: on a board that passes validation, on which neither player has a
\* winning cell and the AI has a fork cell, get_best_move returns a cell
\* after which the AI has two or more threats.
ForkThird ==
    ( /\ HeuristicCalled
      /\ GridOf(ca_board) \in ValidGrids
      /\ NoImmediateWin(GridOf(ca_board))
      /\ ForkCells(GridOf(ca_board), AI_SYMBOL) # {} )
    => /\ ca_rets[1].move.exc = None
       /\ ca_rets[1].move.value \in ForkCells(GridOf(ca_board), AI_SYMBOL)

\* The AI and the human both had a fork cell, neither a winning cell, and
\* the call returned a fork cell of the AI.
ForkedWithHumanForkOpen ==
    /\ HeuristicCalled
    /\ GridOf(ca_board) \in ValidGrids
    /\ NoImmediateWin(GridOf(ca_board))
    /\ ForkCells(GridOf(ca_board), HUMAN_SYMBOL) # {}
    /\ ca_rets[1].move.exc = None
    /\ ca_rets[1].move.value \in ForkCells(GridOf(ca_board), AI_SYMBOL)

\* The AI's mark on c makes a threat, and the human's block of every threat
\* it makes leaves the human with fewer than two threats.
SafeForcingThreat(g, c) ==
    LET b1 == Place(g, c[1], c[2], AI_SYMBOL)
    IN  /\ Threats(b1, AI_SYMBOL) # {}
        /\ \A l \in Threats(b1, AI_SYMBOL) :
               \A t \in {t \in l : b1[t[1]][t[2]] = ""} :
                   Cardinality(Threats(Place(b1, t[1], t[2], HUMAN_SYMBOL),
                                       HUMAN_SYMBOL)) < 2

\* The human has more than one fork cell, the AI none, neither a winning cell.
SeveralHumanForks(g) ==
    /\ NoImmediateWin(g)
    /\ ForkCells(g, AI_SYMBOL) = {}
    /\ Cardinality(ForkCells(g, HUMAN_SYMBOL)) > 1

\* C26: on a board that passes validation, on which neither player has a
\* winning cell, the AI has no fork cell and the human has more than one,
\* get_best_move returns a cell that makes an AI threat whose block by the
\* human does not leave the human with two or more threats.
ForcingThreatIsSafe ==
    ( /\ HeuristicCalled
      /\ GridOf(ca_board) \in ValidGrids
      /\ SeveralHumanForks(GridOf(ca_board)) )
    => /\ ca_rets[1].move.exc = None
       /\ SafeForcingThreat(GridOf(ca_board), ca_rets[1].move.value)

\* The cells of the positions of order that are empty in g, in that order.
EmptyInOrder(g, order) ==
    SelectSeq([k \in 1..Len(order) |-> rect_mapping_inv[IntKey(order[k])]],
              LAMBDA c : g[c[1]][c[2]] = "")

\* The empty corners whose diagonally opposite corner holds the human's mark.
OppositeOfHumanCorner(g) ==
    {c \in {<<0,0>>, <<0,2>>, <<2,0>>, <<2,2>>} :
         g[c[1]][c[2]] = "" /\ g[2 - c[1]][2 - c[2]] = HUMAN_SYMBOL}

\* Priorities 1 to 4 ran and returned no move: the board passed validation,
\* there is no winning cell, no fork cell of the AI, and either no fork cell
\* of the human or several of them and no forcing threat.
PrioritiesOneToFourSilent(g) ==
    /\ g \in ValidGrids
    /\ NoImmediateWin(g)
    /\ ForkCells(g, AI_SYMBOL) = {}
    /\ \/ ForkCells(g, HUMAN_SYMBOL) = {}
       \/ /\ Cardinality(ForkCells(g, HUMAN_SYMBOL)) > 1
          /\ v2_create_forcing_threat(g, AI_SYMBOL, HUMAN_SYMBOL) = None

TrialScore(g, c) ==
    minimax(Place(g, c[1], c[2], AI_SYMBOL), 0, FALSE, AI_SYMBOL, HUMAN_SYMBOL)

\* C28: on a board in progress over {'', O, X} with counts at most 1 apart
\* on which a player has a winning cell, the cell priorities 1 and 2 of the
\* rule-priority get_best_move return has the same minimax score as the cell
\* the search get_best_move returns.
ShortcutEquivalence ==
    ( /\ HeuristicCalled
      /\ GridOf(ca_board) \in ValidGrids
      /\ ~NoImmediateWin(GridOf(ca_board)) )
    => /\ ca_rets[1].move.exc = None
       /\ TrialScore(GridOf(ca_board), ca_rets[1].move.value)
              = TrialScore(GridOf(ca_board),
                           get_best_move(GridOf(ca_board), AI_SYMBOL, HUMAN_SYMBOL))

\* The shortcut blocked the human's winning cell, and the search engine
\* returns another cell.
ShortcutAndSearchDiffer ==
    /\ HeuristicCalled
    /\ GridOf(ca_board) \in ValidGrids
    /\ WinningCells(GridOf(ca_board), AI_SYMBOL) = {}
    /\ WinningCells(GridOf(ca_board), HUMAN_SYMBOL) # {}
    /\ ca_rets[1].move.exc = None
    /\ ca_rets[1].move.value
           # get_best_move(GridOf(ca_board), AI_SYMBOL, HUMAN_SYMBOL)

\* The last turn met a failure outside the program: its capture returned
\* None, or its call of dm.draw returned False.
ExternalFailure ==
    /\ verdict # "none"
    /\ \/ captured /\ grid_run = NoneGrid
       \/ draw_log # <<>> /\ ~draw_log[Len(draw_log)].ret

\* C31: a turn whose capture returned None or whose draw returned False ends
\* the game through a rejection, raises no exception and adopts no board.
ExternalFailuresHandled ==
    ExternalFailure =>
        /\ verdict \in Rejections
        /\ outcome # "crash"
        /\ pc = "done"
        /\ grid_sim \in {grid_prev, NoneGrid}

\* The ways run_simulation_dobot ends by itself: the report after the loop
\* or a call of exit.
TerminalOutcomes ==
    {"draw", "human_won", "robot_won", "exit_grid_none", "exit_wrong_symbol",
     "exit_no_symbol"}

\* C32: the loop makes at most nine iterations, and a game that has ended
\* has ended in the report after the loop or in an exit, whatever the
\* captures returned.
EndsInReportWithinNine ==
    /\ simulation_count <= MaxTurns
    /\ pc = "done" => outcome \in TerminalOutcomes

\* C33: the first turn is made by the starting player and every turn by the
\* player to move; the player to move changes in a step exactly when the
\* step is an accepted turn, and then to the other player than the one who
\* made it; an accepted turn changes the accepted board, to its capture.
TurnsAlternate ==
    [][ /\ pc = "turn" =>
               /\ turn_player' = player
               /\ simulation_count = 1 => turn_player' = starting_player
        /\ pc # "start" =>
               (player' # player <=> pc = "turn" /\ verdict' = "accepted")
        /\ pc = "turn" /\ verdict' = "accepted" =>
               /\ player' # turn_player'
               /\ grid_sim' # grid_sim
               /\ grid_sim' = grid_run'
      ]_vars

\* The second turn of a game was accepted, made by the other player than
\* the starting player, on the board the first turn left.
SecondTurnByOtherPlayer ==
    /\ simulation_count = 2
    /\ verdict = "accepted"
    /\ turn_player # starting_player
    /\ player = starting_player
    /\ Cardinality(FilledCells(grid_sim)) = 2

InProgress(g) ==
    g \in PlayerGrids /\ ~HasFullLine(g) /\ EmptyCells(g) # {}

\* ret is the return of an integer 1..9 whose cell is empty in g.
EmptyPosition(ret, g) ==
    /\ ret.exc = None
    /\ \E n \in 1..9 :
           /\ ret.value = <<n>>
           /\ g[rect_mapping_inv[IntKey(n)][1]][rect_mapping_inv[IntKey(n)][2]] = ""

\* C35: on every board in progress over {'', O, X} run_algorithm of the
\* search engine returns a position 1..9 whose cell is empty, and so does
\* run_algorithm of the rule-priority engine when the counts of the two
\* symbols differ by at most 1.  The search engine is called by the actions
\* on the boards of CountedGrids and evaluated here on the others.
AlwaysAnEmptyPosition ==
    /\ ca_engine = "search" /\ ca_rets # <<>> /\ InProgress(GridOf(ca_board)) =>
           EmptyPosition(ca_rets[1].pos, GridOf(ca_board))
    /\ ( /\ HeuristicCalled
         /\ InProgress(GridOf(ca_board))
         /\ Abs(SymbolCount(GridOf(ca_board), AI_SYMBOL)
                  - SymbolCount(GridOf(ca_board), HUMAN_SYMBOL)) <= 1 ) =>
           EmptyPosition(ca_rets[1].pos, GridOf(ca_board))
    /\ ( /\ HeuristicCalled
         /\ Len(ca_rets) = 1
         /\ InProgress(GridOf(ca_board))
         /\ GridOf(ca_board) \notin CountedGrids ) =>
           EmptyPosition(mm_run_algorithm(get_best_move(GridOf(ca_board),
                                                        AI_SYMBOL, HUMAN_SYMBOL)),
                         GridOf(ca_board))

\* A call of run_algorithm returned the only empty cell of a board in progress.
LastCellReturned ==
    /\ ca_rets # <<>>
    /\ ~v2_shape_error(ca_board)
    /\ InProgress(GridOf(ca_board))
    /\ Cardinality(EmptyCells(GridOf(ca_board))) = 1
    /\ EmptyPosition(ca_rets[1].pos, GridOf(ca_board))

----------------------------------------------------------------------------
(* src/src/draw_module.py: DrawModule.draw and its connection, followed by  *)
(* the capture of the robot turn (run_simulation.py lines 331-339).  The    *)
(* constructor Dobot(port=...) of pydobot either returns an open connection *)
(* or raises without leaving one.                                           *)

\* Draws of one game that are followed.
MaxDraws == 2

\* rectangle_number and dobot_symbol as a caller may pass them.
RectangleNumbers == {0, 1, 9, 10}
DrawSymbols == {"x", "o", "X", "z"}

\* str.upper() on the strings of the model.
Upper(s) ==
    CASE s = "x" -> "X"
      [] s = "o" -> "O"
      [] s = "z" -> "Z"
      [] OTHER -> s

\* Where the try block of draw meets an exception: nowhere, in Dobot(port),
\* in the move to home, while the symbol is drawn, in go_home.
DrawFailures == {"none", "connect", "home", "symbol", "go_home"}

\* Where run_camera_dobot meets an exception: nowhere, in Dobot(port), in
\* the frame capture or the vision call, in move_to_home of __exit__.
CaptureFailures == {"none", "connect", "vision", "exit_move"}

\* A connection just opened by who.
Opened(who) == [by |-> who, close_called |-> FALSE, close_error |-> FALSE]

\* The finally block that forgets the connection without closing it.
dm_connection_exit_without_close(dobot, conns, close_raises) ==
    [dobot |-> None, conns |-> conns]

\* The finally block of DrawModule._connection: close() on self.dobot if it
\* is set, an exception of close() printed, self.dobot = None.
dm_connection_exit(dobot, conns, close_raises) ==
    IF dobot = None THEN [dobot |-> None, conns |-> conns]
    ELSE [dobot |-> None,
          conns |-> [conns EXCEPT ![dobot[1]] =
                        [@ EXCEPT !.close_called = TRUE,
                                  !.close_error = close_raises]]]

\* DrawModule.draw: what it returns ("True", "False") or raises
\* ("ValueError"), with self.dobot and the connections after it.
dm_draw(dobot, conns, rectangle_number, dobot_symbol, fail, close_raises) ==
    IF rectangle_number \notin 1..9 \/ Upper(dobot_symbol) \notin {"X", "O"}
    THEN [ret |-> "ValueError", dobot |-> dobot, conns |-> conns]
    ELSE LET entered == IF fail = "connect"
                        THEN [dobot |-> dobot, conns |-> conns]
                        ELSE [dobot |-> <<Len(conns) + 1>>,
                              conns |-> Append(conns, Opened("draw"))]
             left    == dm_connection_exit(entered.dobot, entered.conns, close_raises)
         IN  [ret   |-> IF fail = "none" THEN "True" ELSE "False",
              dobot |-> left.dobot,
              conns |-> left.conns]

\* run_camera_dobot: DobotController opens its own connection on the port;
\* __exit__ moves home and then closes, so close() is not reached when the
\* move raises.
run_camera_dobot_conns(conns, fail, close_raises) ==
    IF fail = "connect" THEN conns
    ELSE Append(conns, [by |-> "camera",
                        close_called |-> fail # "exit_move",
                        close_error |-> fail # "exit_move" /\ close_raises])

InitDraw ==
    /\ dr_pc = "robot_turn"
    /\ dr_dobot = None
    /\ dr_conns = <<>>
    /\ dr_calls = <<>>
    /\ dr_capture_early = FALSE
    /\ SimIdle /\ cache = EmptyCache /\ GameIdle /\ WinIdle /\ LedgerIdle /\ CallIdle

\* Line 331 of run_simulation.py: ret = dm.draw(...).
DrawStep(rectangle_number, dobot_symbol, fail, close_raises) ==
    /\ dr_pc = "robot_turn"
    /\ Len(dr_calls) < MaxDraws
    /\ \E r \in {dm_draw(dr_dobot, dr_conns, rectangle_number, dobot_symbol,
                         fail, close_raises)} :
           /\ dr_dobot' = r.dobot
           /\ dr_conns' = r.conns
           /\ dr_calls' = Append(dr_calls, [rectangle_number |-> rectangle_number,
                                            dobot_symbol |-> dobot_symbol,
                                            ret |-> r.ret])
           /\ dr_pc' = (CASE r.ret = "True" -> "drawn"
                          [] r.ret = "False" -> "failed"
                          [] OTHER -> "raised")
    /\ UNCHANGED dr_capture_early
    /\ UNCHANGED <<simvars, cache, gamevars, winvars, ledgervars, callvars>>

\* Lines 335-339 of run_simulation.py: the capture after a draw that
\* returned True; the next draw is that of the next robot turn.
CaptureStep(fail, close_raises) ==
    /\ dr_pc = "drawn"
    /\ dr_capture_early' =
           (dr_capture_early
              \/ dr_dobot # None
              \/ \E n \in 1..Len(dr_conns) :
                     dr_conns[n].by = "draw" /\ ~dr_conns[n].close_called)
    /\ dr_conns' = run_camera_dobot_conns(dr_conns, fail, close_raises)
    /\ dr_pc' = "robot_turn"
    /\ UNCHANGED <<dr_dobot, dr_calls>>
    /\ UNCHANGED <<simvars, cache, gamevars, winvars, ledgervars, callvars>>

NextDraw ==
    \/ \E rectangle_number \in RectangleNumbers, dobot_symbol \in DrawSymbols,
          fail \in DrawFailures, close_raises \in BOOLEAN :
           DrawStep(rectangle_number, dobot_symbol, fail, close_raises)
    \/ \E fail \in CaptureFailures, close_raises \in BOOLEAN :
           CaptureStep(fail, close_raises)

SpecDraw == InitDraw /\ [][NextDraw]_vars

\* C36: whenever draw has returned True or False, close() has been called
\* on every connection draw opened and self.dobot is None, and no capture
\* began while a connection of draw had not been closed.
DrawReleasesConnection ==
    /\ dr_pc \in {"drawn", "failed", "robot_turn"} =>
           /\ dr_dobot = None
           /\ \A n \in 1..Len(dr_conns) :
                  dr_conns[n].by = "draw" => dr_conns[n].close_called
    /\ ~dr_capture_early

\* A draw met an exception after it had connected and returned False, with
\* close() called on its connection.
ClosedAfterFailedDrawing ==
    /\ dr_pc = "failed"
    /\ dr_calls[Len(dr_calls)].ret = "False"
    /\ dr_conns # <<>>
    /\ dr_conns[Len(dr_conns)].by = "draw"
    /\ dr_conns[Len(dr_conns)].close_called
    /\ dr_dobot = None

====
